---- MODULE Spec2Model ----
(***************************************************************************)
(* Model of the core service: the Example CRUD routes                      *)
(* (app/routes/example.py) over one relational table, the request-scoped   *)
(* session (app/clients/db.py), the registered exception handlers          *)
(* (app/core/error_handlers.py, app/main.py) and the construction of       *)
(* Settings (app/config/__init__.py).                                      *)
(*                                                                         *)
(* Values.  A JSON/text value is a record [t, n, nul]: t is "unset" (key   *)
(* absent from the body), "null", or "str"; n is the length of a string;   *)
(* nul says that the string contains the character U+0000.  Two strings    *)
(* are told apart by their length only.  Timestamps are readings of one    *)
(* clock, as naturals.                                                     *)
(***************************************************************************)
EXTENDS Integers, Sequences, FiniteSets, TLC

\* ------------------------------------------------------------------ bounds
\* Requests served in one behaviour (caps the request counter, and with it
\* the identifier sequence and the clock).
MaxRequests == 4

\* ------------------------------------------------------- program constants
max_length == 255
HTTP_200_OK == 200
HTTP_201_CREATED == 201
HTTP_204_NO_CONTENT == 204
HTTP_400_BAD_REQUEST == 400
HTTP_404_NOT_FOUND == 404
HTTP_422_UNPROCESSABLE_ENTITY == 422
HTTP_500_INTERNAL_SERVER_ERROR == 500
\* The identifier the test suite uses for "no such record".
MissingId == 99999
\* Default of the list route's limit parameter.
DefaultLimit == 100

\* ------------------------------------------------------------------ values
Unset == [t |-> "unset", n |-> 0, nul |-> FALSE]
Null == [t |-> "null", n |-> 0, nul |-> FALSE]
Str(len) == [t |-> "str", n |-> len, nul |-> FALSE]
\* A one-character string holding U+0000.
StrNul == [t |-> "str", n |-> 1, nul |-> TRUE]
\* An integer field of a body that is absent.
NoInt == 0 - 1

VARIABLES
    examples,   \* the table "examples": committed rows, in storage order
    id_seq,     \* last value handed out by the table's identifier sequence
    now,        \* the clock: the latest reading a request took
    sessions,   \* sessions currently open
    request,    \* the last request served
    response,   \* its response
    nreq,       \* requests served so far
    deleted,    \* history: identifiers whose delete returned 204
    raised,     \* history: the exception the last request raised, or NoExc
    environ,    \* the environment variables the process was started with
    settings,   \* the Settings object and how its construction ended
    inflight    \* the requests being served step by step, each in its session

vars == <<examples, id_seq, now, sessions, request, response, nreq, deleted,
          raised, environ, settings, inflight>>

\* ----------------------------------------------------------- the table
Ids(tbl) == {tbl[i].id : i \in 1..Len(tbl)}

\* Session.get(Example, id): the position of the row, 0 when there is none.
DbGet(tbl, id) ==
    IF \E i \in 1..Len(tbl) : tbl[i].id = id
    THEN CHOOSE i \in 1..Len(tbl) : tbl[i].id = id
    ELSE 0

RemoveAt(tbl, i) == SubSeq(tbl, 1, i - 1) \o SubSeq(tbl, i + 1, Len(tbl))

\* ------------------------------------------------------ request bodies
\* A request body: the keys "name" and "description" carry a JSON value,
\* the keys "id" and "created_at" an integer (NoInt when the key is absent).
Body(name, description, id, created_at) ==
    [name |-> name, description |-> description, id |-> id, created_at |-> created_at]

\* The keys present in a body.
KeysOf(body) ==
    {k \in {"name", "description"} : body[k].t # "unset"}
        \cup {k \in {"id", "created_at"} : body[k] # NoInt}

\* ExampleBase / ExampleCreate: name is a required str of at most max_length
\* characters, description an optional str.  The set of validation errors.
\* ExampleBase without max_length on name.
ExampleCreateErrors_NoMaxLength(body) ==
    (IF body.name.t = "unset" THEN {"missing"} ELSE {})
        \cup (IF body.name.t = "null" THEN {"string_type"} ELSE {})

ExampleCreateErrors(body) ==
    (IF body.name.t = "unset" THEN {"missing"} ELSE {})
        \cup (IF body.name.t = "null" THEN {"string_type"} ELSE {})
        \cup (IF body.name.t = "str" /\ body.name.n > max_length
                THEN {"string_too_long"} ELSE {})

\* ExampleUpdate: name is an optional str of at most max_length characters
\* (None allowed), description an optional str.
ExampleUpdateErrors(body) ==
    IF body.name.t = "str" /\ body.name.n > max_length
        THEN {"string_too_long"} ELSE {}

\* ExampleUpdate declaring every column of the table.
ExampleUpdateFields_AllColumns == {"name", "description", "id", "created_at"}

\* The fields ExampleUpdate declares; other keys of a body are ignored.
ExampleUpdateFields == {"name", "description"}

\* model_dump() without exclude_unset: every declared field, set or not.
UpdateData_WithUnset(body) == {"name", "description"}

\* example_update.model_dump(exclude_unset=True): the declared fields the
\* body set explicitly (a field set to null included).
UpdateData(body) == KeysOf(body) \cap ExampleUpdateFields

\* ------------------------------------------------------------ exceptions
Exc(cls, msg, status) == [cls |-> cls, msg |-> msg, status |-> status]
NoExc == Exc("none", "", 0)

\* class NotFoundError(CoreException), class ValidationError(CoreException)
IsInstance(cls, base) ==
    \/ cls = base
    \/ base = "CoreException" /\ cls \in {"NotFoundError", "ValidationError"}

\* A response.  content is "record", "list", "none" (empty body), "json"
\* (an error object, whose keys are listed in keys) or "text" (plain text);
\* detail_t is the JSON type of the detail member; rows are the records of
\* a record or list body.
Resp(status, content, keys, detail, detail_t, type, rows) ==
    [status |-> status, content |-> content, keys |-> keys, detail |-> detail,
     detail_t |-> detail_t, type |-> type, rows |-> rows]

NoResponse == Resp(0, "none", {}, "", "none", "", <<>>)

core_exception_handler(exc) ==
    LET status_code ==
            IF IsInstance(exc.cls, "NotFoundError") THEN HTTP_404_NOT_FOUND
            ELSE IF IsInstance(exc.cls, "ValidationError") THEN HTTP_400_BAD_REQUEST
            ELSE HTTP_500_INTERNAL_SERVER_ERROR
    IN  Resp(status_code, "json", {"detail", "type"}, exc.msg, "string", exc.cls, <<>>)

\* integrity_error_handler answering with the text of the database error.
integrity_error_handler_RawText(exc) ==
    Resp(HTTP_400_BAD_REQUEST, "json", {"detail", "type"},
         exc.msg, "string", "IntegrityError", <<>>)

integrity_error_handler(exc) ==
    Resp(HTTP_400_BAD_REQUEST, "json", {"detail", "type"},
         "Database integrity error", "string", "IntegrityError", <<>>)

\* The exception handlers the application registers, then the framework's
\* own: an HTTPException becomes {"detail": <detail>} with its status, a
\* request validation error 422 with a list of errors as detail, anything
\* else the plain-text 500 of the server error middleware.
ExceptionResponse(exc) ==
    IF IsInstance(exc.cls, "CoreException") THEN core_exception_handler(exc)
    ELSE IF exc.cls = "IntegrityError" THEN integrity_error_handler(exc)
    ELSE IF exc.cls = "HTTPException"
        THEN Resp(exc.status, "json", {"detail"}, exc.msg, "string", "", <<>>)
    ELSE IF exc.cls = "RequestValidationError"
        THEN Resp(HTTP_422_UNPROCESSABLE_ENTITY, "json", {"detail"}, exc.msg, "array", "", <<>>)
    ELSE Resp(HTTP_500_INTERNAL_SERVER_ERROR, "text", {}, "", "none", "", <<>>)

\* ---------------------------------------------------------- the session
\* get_session: "with Session(engine) as session: yield session".  Entering
\* opens a session; leaving the with block closes it, whether the request
\* raised or not.
SessionEnter(open) == open + 1
SessionExit(open, raising) == open - 1

\* What the database raises when a row is written: the driver refuses a
\* text value holding U+0000 (DataError), the column name is NOT NULL
\* (IntegrityError).
FlushError(row) ==
    IF row.name.nul \/ row.description.nul
        THEN Exc("DataError", "text fields cannot contain NUL", 0)
    ELSE IF row.name.t = "null"
        THEN Exc("IntegrityError", "null value in column name violates not-null constraint", 0)
    ELSE NoExc

\* A commit that keeps what was written although the flush raised.
Commit_KeepsFailedWrite(committed, pending, exc) == pending

\* db.commit(): the pending table becomes the committed one unless the flush
\* raised; then the transaction is rolled back when the session closes.
Commit(committed, pending, exc) == IF exc = NoExc THEN pending ELSE committed

\* ------------------------------------------------------------ settings
\* An environment variable that is not set.
EnvUnset == "<unset>"
\* The default of SECRET_KEY, secrets.token_urlsafe(32).
TokenUrlsafe == "<token_urlsafe>"

Environ(environment, secret_key, postgres_password) ==
    [ENVIRONMENT |-> environment, SECRET_KEY |-> secret_key,
     POSTGRES_PASSWORD |-> postgres_password]

\* A field read from the environment: the default when the variable is not
\* set or is empty (env_ignore_empty=True).
EnvField(value, default) == IF value \in {EnvUnset, ""} THEN default ELSE value

\* ENVIRONMENT: Literal["local", "staging", "production"]
Environments == {"local", "staging", "production"}

\* _check_default_secret: "none" when the value is not the placeholder,
\* else "warn" in the local environment and "raise" in any other.
_check_default_secret(ENVIRONMENT, value) ==
    IF value = "changethis"
    THEN IF ENVIRONMENT = "local" THEN "warn" ELSE "raise"
    ELSE "none"

\* _enforce_non_default_secrets checking SECRET_KEY only.
_enforce_non_default_secrets_KeyOnly(ENVIRONMENT, SECRET_KEY, POSTGRES_PASSWORD) ==
    <<_check_default_secret(ENVIRONMENT, SECRET_KEY)>>

\* _enforce_non_default_secrets: the checks of SECRET_KEY and then of
\* POSTGRES_PASSWORD, in this order; the second is not run when the first
\* raised.
_enforce_non_default_secrets(ENVIRONMENT, SECRET_KEY, POSTGRES_PASSWORD) ==
    LET first == _check_default_secret(ENVIRONMENT, SECRET_KEY)
        second == _check_default_secret(ENVIRONMENT, POSTGRES_PASSWORD)
    IN  IF first = "raise" THEN <<first>> ELSE <<first, second>>

\* Settings(): state is "unbuilt" before the constructor ran, "built" when it
\* returned and "failed" when it raised; warned lists the variables a warning
\* was emitted for.
SettingsObj(state, environment, secret_key, postgres_password, warned) ==
    [state |-> state, ENVIRONMENT |-> environment, SECRET_KEY |-> secret_key,
     POSTGRES_PASSWORD |-> postgres_password, warned |-> warned]

Settings(env) ==
    LET environment == EnvField(env.ENVIRONMENT, "local")
        secret_key == EnvField(env.SECRET_KEY, TokenUrlsafe)
        postgres_password == EnvField(env.POSTGRES_PASSWORD, "")
        checks == _enforce_non_default_secrets(environment, secret_key, postgres_password)
        names == <<"SECRET_KEY", "POSTGRES_PASSWORD">>
        warned == {names[i] : i \in {j \in 1..Len(checks) : checks[j] = "warn"}}
        failed == \/ environment \notin Environments
                  \/ \E i \in 1..Len(checks) : checks[i] = "raise"
    IN  SettingsObj(IF failed THEN "failed" ELSE "built",
                    environment, secret_key, postgres_password,
                    IF environment \in Environments THEN warned ELSE {})

\* ------------------------------------------------------------- handlers
\* What a handler call comes to: the exception it raised (NoExc when it
\* returned), the status and body of its return value, and the table, the
\* identifier sequence and the clock it leaves.
Outcome(exc, status, content, rows, table, seq, clock, gone) ==
    [exc |-> exc, status |-> status, content |-> content, rows |-> rows,
     table |-> table, id_seq |-> seq, now |-> clock, deleted |-> gone]

\* The request did not pass validation: the handler is not called.
Rejected(errors, tbl, seq, clock, gone) ==
    Outcome(Exc("RequestValidationError", "validation errors", 0), 0, "none", <<>>,
            tbl, seq, clock, gone)

NotFound(tbl, seq, clock, gone) ==
    Outcome(Exc("HTTPException", "Example with ID not found", HTTP_404_NOT_FOUND),
            0, "none", <<>>, tbl, seq, clock, gone)

\* Example.model_validate(example): the table model built from the body.  id
\* is assigned by the sequence when the row is inserted; created_at and
\* updated_at come from two calls of datetime.now(UTC), t1 then t2.
NewExample(body, id, t1, t2) ==
    [id |-> id,
     name |-> body.name,
     description |-> IF body.description.t = "unset" THEN Null ELSE body.description,
     created_at |-> t1,
     updated_at |-> t2]

\* create_example without db.add / db.commit: the record is only returned.
create_example_NotPersisted(tbl, seq, gone, body, t1, t2) ==
    LET db_example == NewExample(body, seq + 1, t1, t2)
    IN  Outcome(FlushError(db_example), HTTP_201_CREATED, "record", <<db_example>>,
                tbl, seq, t2, gone)

create_example(tbl, seq, gone, body, t1, t2) ==
    LET db_example == NewExample(body, seq + 1, t1, t2)
        exc == FlushError(db_example)
        pending == Append(tbl, db_example)
    IN  Outcome(exc, HTTP_201_CREATED, "record", <<db_example>>,
                Commit(tbl, pending, exc),
                IF exc = NoExc THEN seq + 1 ELSE seq, t2, gone)

\* OFFSET k and LIMIT k of a result.
Offset(rows, k) == IF k >= Len(rows) THEN <<>> ELSE SubSeq(rows, k + 1, Len(rows))
\* LIMIT that lets one row too many through.
Limit_OneMore(rows, k) == IF k + 1 >= Len(rows) THEN rows ELSE SubSeq(rows, 1, k + 1)
Limit(rows, k) == IF k >= Len(rows) THEN rows ELSE SubSeq(rows, 1, k)

\* select(Example).offset(skip).limit(limit): the database refuses a
\* negative OFFSET or LIMIT (DataError).
list_examples(tbl, seq, clock, gone, skip, limit) ==
    IF skip < 0 \/ limit < 0
    THEN Outcome(Exc("DataError", "OFFSET/LIMIT must not be negative", 0),
                 0, "none", <<>>, tbl, seq, clock, gone)
    ELSE Outcome(NoExc, HTTP_200_OK, "list", Limit(Offset(tbl, skip), limit),
                 tbl, seq, clock, gone)

\* get_example without its "if not example" test.
get_example_Unchecked(tbl, seq, clock, gone, example_id) ==
    LET i == DbGet(tbl, example_id)
    IN  Outcome(NoExc, HTTP_200_OK, "record",
                IF i = 0 THEN <<>> ELSE <<tbl[i]>>, tbl, seq, clock, gone)

get_example(tbl, seq, clock, gone, example_id) ==
    LET i == DbGet(tbl, example_id)
    IN  IF i = 0 THEN NotFound(tbl, seq, clock, gone)
        ELSE Outcome(NoExc, HTTP_200_OK, "record", <<tbl[i]>>, tbl, seq, clock, gone)

\* for field, value in update_data.items(): setattr(example, field, value)
SetAttrs(example, body, update_data) ==
    [f \in DOMAIN example |-> IF f \in update_data THEN body[f] ELSE example[f]]

\* The row an UPDATE writes: a row none of whose attributes changed is not
\* written at all; a written row gets updated_at from onupdate=func.now().
Flushed(old, example, t) ==
    IF example = old THEN old ELSE [example EXCEPT !.updated_at = t]

update_example(tbl, seq, clock, gone, example_id, body, t) ==
    LET i == DbGet(tbl, example_id)
    IN  IF i = 0 THEN NotFound(tbl, seq, clock, gone)
        ELSE LET example == SetAttrs(tbl[i], body, UpdateData(body))
                 dirty == example # tbl[i]
                 row == Flushed(tbl[i], example, t)
                 exc == IF dirty THEN FlushError(row) ELSE NoExc
                 pending == [tbl EXCEPT ![i] = row]
                 after == Commit(tbl, pending, exc)
             IN  Outcome(exc, HTTP_200_OK, "record", <<after[i]>>, after, seq,
                         IF dirty THEN t ELSE clock, gone)

\* delete_example that answers 204 and leaves the row in place.
delete_example_Soft(tbl, seq, clock, gone, example_id) ==
    LET i == DbGet(tbl, example_id)
    IN  IF i = 0 THEN NotFound(tbl, seq, clock, gone)
        ELSE Outcome(NoExc, HTTP_204_NO_CONTENT, "none", <<>>, tbl, seq, clock,
                     gone \cup {example_id})

delete_example(tbl, seq, clock, gone, example_id) ==
    LET i == DbGet(tbl, example_id)
    IN  IF i = 0 THEN NotFound(tbl, seq, clock, gone)
        ELSE Outcome(NoExc, HTTP_204_NO_CONTENT, "none", <<>>,
                     Commit(tbl, RemoveAt(tbl, i), NoExc), seq, clock,
                     gone \cup {example_id})

\* ------------------------------------------------------------- requests
Req(op, id, body, skip, limit) ==
    [op |-> op, id |-> id, body |-> body, skip |-> skip, limit |-> limit]

NoBody == Body(Unset, Unset, NoInt, NoInt)
NoRequest == Req("none", 0, NoBody, 0, 0)

\* Bodies sent to POST /examples: the name missing, empty, short, of
\* max_length characters and of one more; a description absent, given, and
\* holding U+0000.
CreateBodies ==
    {Body(n, Unset, NoInt, NoInt) :
        n \in {Unset, Str(0), Str(1), Str(max_length), Str(max_length + 1)}}
        \cup {Body(Str(1), d, NoInt, NoInt) : d \in {Str(1), StrNul}}

\* Bodies sent to PATCH /examples/{id}: empty, each field alone (a value, or
\* null), both fields, a name that is too long, and a body carrying keys
\* that ExampleUpdate does not declare.
UpdateBodies ==
    {Body(Unset, Unset, NoInt, NoInt),
     Body(Str(2), Unset, NoInt, NoInt),
     Body(Null, Unset, NoInt, NoInt),
     Body(Str(max_length + 1), Unset, NoInt, NoInt),
     Body(Unset, Str(1), NoInt, NoInt),
     Body(Unset, Null, NoInt, NoInt),
     Body(Str(2), Str(1), NoInt, NoInt),
     Body(Str(2), Unset, MissingId, MissingId)}

\* Identifiers requests name: the first two the sequence hands out, and one
\* it never does.
RequestIds == {1, 2, MissingId}

SkipValues == {-1, 0, 1, 2}
LimitValues == {-1, 0, 1, DefaultLimit}

\* ---------------------------------------------------- requests in flight
\* The row a session holds when it holds none.
NoRow == [id |-> 0, name |-> Unset, description |-> Unset, created_at |-> 0,
          updated_at |-> 0]

\* A request served step by step: pc is "idle" (not arrived), "looked" (its
\* db.get found the row), "mutated" (setattr / db.delete done, commit not
\* yet) or "done" (answered, session closed).  loaded is the row as db.get
\* read it, example the session's object, resp and exc the answer, and
\* order the rank of the request among those that are done.
InFlight(pc, id, body, loaded, example, resp, exc, order) ==
    [pc |-> pc, id |-> id, body |-> body, loaded |-> loaded, example |-> example,
     resp |-> resp, exc |-> exc, order |-> order]

Idle == InFlight("idle", 0, NoBody, NoRow, NoRow, NoResponse, NoExc, 0)

\* update and delete are the two requests in flight; existing is the set of
\* identifiers stored when they arrive.
NoneInFlight == [update |-> Idle, delete |-> Idle, existing |-> {}]

\* One request served from start to end: the session is opened, the body is
\* validated, the handler runs, the response is made from what it returned
\* or raised, and the session is closed.
Serve(req, out) ==
    /\ nreq < MaxRequests
    /\ nreq' = nreq + 1
    /\ request' = req
    /\ response' = IF out.exc = NoExc
                     THEN Resp(out.status, out.content, {}, "", "none", "", out.rows)
                     ELSE ExceptionResponse(out.exc)
    /\ examples' = out.table
    /\ id_seq' = out.id_seq
    /\ now' = out.now
    /\ deleted' = out.deleted
    /\ raised' = out.exc
    /\ sessions' = SessionExit(SessionEnter(sessions), out.exc # NoExc)
    /\ UNCHANGED <<environ, settings, inflight>>

\* Time passes between two requests, so the first reading a request takes is
\* later than every reading before it; two readings within one request are
\* equal or not.
CreateExample ==
    \E body \in CreateBodies, t1 \in {now + 1} :
        \E t2 \in {t1, t1 + 1} :
            Serve(Req("create", 0, body, 0, 0),
                  IF ExampleCreateErrors(body) # {}
                  THEN Rejected(ExampleCreateErrors(body), examples, id_seq, now, deleted)
                  ELSE create_example(examples, id_seq, deleted, body, t1, t2))

ListExamples ==
    \E skip \in SkipValues, limit \in LimitValues :
        Serve(Req("list", 0, NoBody, skip, limit),
              list_examples(examples, id_seq, now, deleted, skip, limit))

GetExample ==
    \E example_id \in RequestIds :
        Serve(Req("get", example_id, NoBody, 0, 0),
              get_example(examples, id_seq, now, deleted, example_id))

UpdateExample ==
    \E example_id \in RequestIds, body \in UpdateBodies, t \in {now + 1} :
        Serve(Req("update", example_id, body, 0, 0),
              IF ExampleUpdateErrors(body) # {}
              THEN Rejected(ExampleUpdateErrors(body), examples, id_seq, now, deleted)
              ELSE update_example(examples, id_seq, now, deleted, example_id, body, t))

DeleteExample ==
    \E example_id \in RequestIds :
        Serve(Req("delete", example_id, NoBody, 0, 0),
              delete_example(examples, id_seq, now, deleted, example_id))

Init ==
    /\ examples = <<>>
    /\ id_seq = 0
    /\ now = 0
    /\ sessions = 0
    /\ request = NoRequest
    /\ response = NoResponse
    /\ nreq = 0
    /\ deleted = {}
    /\ raised = NoExc
    /\ inflight = NoneInFlight
    /\ environ = Environ(EnvUnset, EnvUnset, EnvUnset)
    /\ settings = Settings(environ)

Next ==
    \/ CreateExample
    \/ ListExamples
    \/ GetExample
    \/ UpdateExample
    \/ DeleteExample

Spec == Init /\ [][Next]_vars

\* ------------------------------------------- the exception handlers alone
\* No route raises a CoreException, so the requests above never reach
\* core_exception_handler.  This action is a request whose handler raises an
\* exception drawn from the classes below before it touches storage; the
\* application answers it through the handlers it registered.
ExceptionClasses ==
    {"CoreException", "NotFoundError", "ValidationError", "IntegrityError", "RuntimeError"}
ExceptionMessages == {"", "no such example", "duplicate key value violates unique constraint"}

RaiseInHandler ==
    \E cls \in ExceptionClasses, msg \in ExceptionMessages :
        Serve(Req("raise", 0, NoBody, 0, 0),
              Outcome(Exc(cls, msg, 0), 0, "none", <<>>, examples, id_seq, now, deleted))

NextHandlers ==
    \/ Next
    \/ RaiseInHandler

SpecHandlers == Init /\ [][NextHandlers]_vars

\* ------------------------------------------------- process start (Settings)
EnvironmentValues == {EnvUnset, "local", "staging", "production", "testing"}
SecretValues == {EnvUnset, "", "changethis", "Changethis", "s3cret"}

\* The process is about to start, under any environment.
InitSettings ==
    /\ environ \in {Environ(e, k, p) :
                      e \in EnvironmentValues, k \in SecretValues, p \in SecretValues}
    /\ settings = SettingsObj("unbuilt", "", "", "", {})
    /\ examples = <<>>
    /\ id_seq = 0
    /\ now = 0
    /\ sessions = 0
    /\ request = NoRequest
    /\ response = NoResponse
    /\ nreq = 0
    /\ deleted = {}
    /\ raised = NoExc
    /\ inflight = NoneInFlight

\* settings = Settings() at import of app.config.
ConstructSettings ==
    /\ settings.state = "unbuilt"
    /\ settings' = Settings(environ)
    /\ UNCHANGED <<examples, id_seq, now, sessions, request, response, nreq,
                   deleted, raised, environ, inflight>>

NextSettings == ConstructSettings

SpecSettings == InitSettings /\ [][NextSettings]_vars

\* ------------------------------------- an update and a delete interleaved
\* Creates served before the two requests arrive.
MaxSeeded == 2

\* Bodies of the creates that stored the records.
SeedBodies ==
    {b \in CreateBodies :
        ExampleCreateErrors(b) = {} /\ FlushError(NewExample(b, 0, 0, 0)) = NoExc}

\* The storage states that up to n successful creates leave.
RECURSIVE Seeded(_)
Seeded(n) ==
    IF n = 0 THEN {[table |-> <<>>, id_seq |-> 0, now |-> 0]}
    ELSE LET prev == Seeded(n - 1)
             outs == {create_example(st.table, st.id_seq, {}, b, st.now + 1, st.now + 1 + d) :
                        st \in prev, b \in SeedBodies, d \in {0, 1}}
         IN  prev \cup {[table |-> o.table, id_seq |-> o.id_seq, now |-> o.now] : o \in outs}

\* The rank of the next request to be done.
NextOrder == 1 + Cardinality({k \in {"update", "delete"} : inflight[k].pc = "done"})

\* The request p is answered: by resp when exc is NoExc, else by the response
\* the application makes of exc.
Answered(p, resp, exc) ==
    InFlight("done", p.id, p.body, p.loaded, p.example,
             IF exc = NoExc THEN resp ELSE ExceptionResponse(exc), exc, NextOrder)

\* What leaves the rest of the state alone in a step of a request in flight.
StepFrame == UNCHANGED <<id_seq, request, response, nreq, raised, environ, settings>>

\* A commit that writes the changed object whether or not its row is still
\* stored (INSERT ... ON CONFLICT DO UPDATE in place of UPDATE ... WHERE).
CommitUpdate_Upsert(tbl, loaded, example, t) ==
    LET i == DbGet(tbl, loaded.id)
        row == Flushed(loaded, example, t)
        exc == FlushError(row)
    IN  [exc |-> exc,
         table |-> Commit(tbl, IF i = 0 THEN Append(tbl, row) ELSE [tbl EXCEPT ![i] = row], exc),
         rows |-> IF exc = NoExc THEN <<row>> ELSE <<>>]

\* db.commit() then db.refresh(example) of update_example, in a session that
\* read the row as loaded and holds it as example.  A changed object is
\* written by UPDATE ... WHERE id = loaded.id, and the session raises
\* StaleDataError when the statement matches no row; an unchanged object is
\* not written, and the refresh raises InvalidRequestError when its SELECT
\* finds no row.
CommitUpdate(tbl, loaded, example, t) ==
    LET i == DbGet(tbl, loaded.id)
        row == Flushed(loaded, example, t)
    IN  IF example # loaded
        THEN LET exc ==
                    IF FlushError(row).cls = "DataError" THEN FlushError(row)
                    ELSE IF i = 0
                        THEN Exc("StaleDataError", "UPDATE expected to update 1 row; 0 were matched", 0)
                    ELSE FlushError(row)
             IN  [exc |-> exc,
                  table |-> IF i = 0 THEN tbl ELSE Commit(tbl, [tbl EXCEPT ![i] = row], exc),
                  rows |-> IF exc = NoExc THEN <<row>> ELSE <<>>]
        ELSE IF i = 0
            THEN [exc |-> Exc("InvalidRequestError", "Could not refresh instance", 0),
                  table |-> tbl, rows |-> <<>>]
            ELSE [exc |-> NoExc, table |-> tbl, rows |-> <<tbl[i]>>]

\* db.delete(example); db.commit() of delete_example: DELETE ... WHERE id =
\* loaded.id.
CommitDelete(tbl, loaded) ==
    LET i == DbGet(tbl, loaded.id)
    IN  IF i = 0 THEN tbl ELSE Commit(tbl, RemoveAt(tbl, i), NoExc)

\* PATCH arrives: the session is opened, the body validated and the row
\* looked up (update_example up to its "if not example").
UpdateLookup ==
    \E example_id \in RequestIds, body \in UpdateBodies :
        LET p == InFlight("idle", example_id, body, NoRow, NoRow, NoResponse, NoExc, 0)
            i == DbGet(examples, example_id)
        IN  /\ inflight.update.pc = "idle"
            /\ IF ExampleUpdateErrors(body) # {}
               THEN /\ inflight' = [inflight EXCEPT !.update =
                        Answered(p, NoResponse,
                                 Rejected(ExampleUpdateErrors(body), examples, id_seq, now, deleted).exc)]
                    /\ sessions' = SessionExit(SessionEnter(sessions), TRUE)
               ELSE IF i = 0
               THEN /\ inflight' = [inflight EXCEPT !.update =
                        Answered(p, NoResponse, NotFound(examples, id_seq, now, deleted).exc)]
                    /\ sessions' = SessionExit(SessionEnter(sessions), TRUE)
               ELSE /\ inflight' = [inflight EXCEPT !.update =
                        InFlight("looked", example_id, body, examples[i], examples[i],
                                 NoResponse, NoExc, 0)]
                    /\ sessions' = SessionEnter(sessions)
            /\ UNCHANGED <<examples, now, deleted>>
            /\ StepFrame

\* The setattr loop and db.add(example) of update_example.
UpdateMutate ==
    LET p == inflight.update
    IN  /\ p.pc = "looked"
        /\ inflight' = [inflight EXCEPT !.update =
                InFlight("mutated", p.id, p.body, p.loaded,
                         SetAttrs(p.example, p.body, UpdateData(p.body)),
                         NoResponse, NoExc, 0)]
        /\ UNCHANGED <<examples, now, deleted, sessions>>
        /\ StepFrame

\* db.commit(), db.refresh(example) and the return of update_example; the
\* session is closed.
UpdateCommit ==
    LET p == inflight.update
        out == CommitUpdate(examples, p.loaded, p.example, now + 1)
    IN  /\ p.pc = "mutated"
        /\ examples' = out.table
        /\ now' = IF p.example # p.loaded THEN now + 1 ELSE now
        /\ inflight' = [inflight EXCEPT !.update =
                Answered(p, Resp(HTTP_200_OK, "record", {}, "", "none", "", out.rows), out.exc)]
        /\ sessions' = SessionExit(sessions, out.exc # NoExc)
        /\ UNCHANGED deleted
        /\ StepFrame

\* DELETE arrives: the session is opened and the row looked up
\* (delete_example up to its "if not example").
DeleteLookup ==
    \E example_id \in RequestIds :
        LET p == InFlight("idle", example_id, NoBody, NoRow, NoRow, NoResponse, NoExc, 0)
            i == DbGet(examples, example_id)
        IN  /\ inflight.delete.pc = "idle"
            /\ IF i = 0
               THEN /\ inflight' = [inflight EXCEPT !.delete =
                        Answered(p, NoResponse, NotFound(examples, id_seq, now, deleted).exc)]
                    /\ sessions' = SessionExit(SessionEnter(sessions), TRUE)
               ELSE /\ inflight' = [inflight EXCEPT !.delete =
                        InFlight("looked", example_id, NoBody, examples[i], examples[i],
                                 NoResponse, NoExc, 0)]
                    /\ sessions' = SessionEnter(sessions)
            /\ UNCHANGED <<examples, now, deleted>>
            /\ StepFrame

\* db.delete(example): the object is marked for deletion in the session.
DeleteMutate ==
    LET p == inflight.delete
    IN  /\ p.pc = "looked"
        /\ inflight' = [inflight EXCEPT !.delete =
                InFlight("mutated", p.id, p.body, p.loaded, NoRow, NoResponse, NoExc, 0)]
        /\ UNCHANGED <<examples, now, deleted, sessions>>
        /\ StepFrame

\* db.commit() and the return of delete_example; the session is closed.
DeleteCommit ==
    LET p == inflight.delete
    IN  /\ p.pc = "mutated"
        /\ examples' = CommitDelete(examples, p.loaded)
        /\ deleted' = deleted \cup {p.id}
        /\ inflight' = [inflight EXCEPT !.delete =
                Answered(p, Resp(HTTP_204_NO_CONTENT, "none", {}, "", "none", "", <<>>), NoExc)]
        /\ sessions' = SessionExit(sessions, FALSE)
        /\ UNCHANGED now
        /\ StepFrame

\* Records are stored, no request is in flight.
InitInterleaved ==
    /\ \E st \in Seeded(MaxSeeded) :
        /\ examples = st.table
        /\ id_seq = st.id_seq
        /\ now = st.now
        /\ inflight = [NoneInFlight EXCEPT !.existing = Ids(st.table)]
    /\ sessions = 0
    /\ request = NoRequest
    /\ response = NoResponse
    /\ nreq = 0
    /\ deleted = {}
    /\ raised = NoExc
    /\ environ = Environ(EnvUnset, EnvUnset, EnvUnset)
    /\ settings = Settings(environ)

NextInterleaved ==
    \/ UpdateLookup
    \/ UpdateMutate
    \/ UpdateCommit
    \/ DeleteLookup
    \/ DeleteMutate
    \/ DeleteCommit

SpecInterleaved == InitInterleaved /\ [][NextInterleaved]_vars

\* =================================================================== claims
\* A step that serves a request (every step of Spec does).
Served(op) == nreq' = nreq + 1 /\ request'.op = op

\* The body of an error response carries exactly a detail string.
DetailOnly(resp) ==
    /\ resp.content = "json"
    /\ resp.keys = {"detail"}
    /\ resp.detail_t = "string"

\* C1 as stated: a get of an identifier that is not in storage returns 404
\* with an error body whose type member is "NotFoundError", and leaves
\* storage unchanged.
C1_AsStated ==
    [][(Served("get") /\ request'.id \notin Ids(examples))
        => /\ response'.status = HTTP_404_NOT_FOUND
           /\ "type" \in response'.keys
           /\ response'.type = "NotFoundError"
           /\ examples' = examples]_vars

\* C1 amended: a get of an identifier that is not in storage returns 404
\* with an error body that carries only a detail string (no type member),
\* and leaves storage unchanged.
C1_GetMissing ==
    [][(Served("get") /\ request'.id \notin Ids(examples))
        => /\ response'.status = HTTP_404_NOT_FOUND
           /\ DetailOnly(response')
           /\ examples' = examples]_vars

\* C1 witness: a get of an identifier that was deleted has answered 404.
C1_Witness ==
    /\ request.op = "get"
    /\ request.id \in deleted
    /\ request.id \notin Ids(examples)
    /\ response.status = HTTP_404_NOT_FOUND

\* The name of a create body is one the claim C2 calls invalid.
NameMissing(body) == body.name.t = "unset"
NameEmpty(body) == body.name.t = "str" /\ body.name.n = 0
NameTooLong(body) == body.name.t = "str" /\ body.name.n > max_length

Supplied(body, field, old) == IF field \in KeysOf(body) THEN body[field] ELSE old[field]

\* The update changed, of all stored fields, only name and description of
\* the row at position i, to the supplied values; updated_at is left aside.
OnlySuppliedChanged(i) ==
    /\ Len(examples') = Len(examples)
    /\ examples'[i].name = Supplied(request'.body, "name", examples[i])
    /\ examples'[i].description = Supplied(request'.body, "description", examples[i])
    /\ examples'[i].id = examples[i].id
    /\ examples'[i].created_at = examples[i].created_at
    /\ \A j \in 1..Len(examples) : j # i => examples'[j] = examples[j]
    /\ response'.content = "record"
    /\ response'.rows = <<examples'[i]>>

\* C3 as stated, read for the updates that succeed: every update of an
\* existing record that returns 200 changes exactly the supplied fields,
\* strictly advances updated_at and returns the stored record.
C3_AsStated ==
    [][(Served("update") /\ request'.id \in Ids(examples)
            /\ response'.status = HTTP_200_OK)
        => LET i == DbGet(examples, request'.id)
           IN  /\ OnlySuppliedChanged(i)
               /\ examples'[i].updated_at > examples[i].updated_at]_vars

\* C3 amended: every update of an existing record that returns 200 changes
\* exactly the supplied fields and returns the stored record; updated_at is
\* set to the current time when a supplied value differs from the stored one
\* and is left as it was when none does (an empty body, or the same values).
C3_UpdateFrame ==
    [][(Served("update") /\ request'.id \in Ids(examples)
            /\ response'.status = HTTP_200_OK)
        => LET i == DbGet(examples, request'.id)
               changed ==
                   \/ examples'[i].name # examples[i].name
                   \/ examples'[i].description # examples[i].description
           IN  /\ OnlySuppliedChanged(i)
               /\ examples'[i].updated_at =
                    IF changed THEN now' ELSE examples[i].updated_at]_vars

\* C3 witness: an update that supplied only a name has changed the name of a
\* record that has a description, and advanced its updated_at.
C3_Witness ==
    /\ request.op = "update"
    /\ KeysOf(request.body) = {"name"}
    /\ response.status = HTTP_200_OK
    /\ response.rows[1].name = request.body.name
    /\ response.rows[1].description = Str(1)
    /\ response.rows[1].updated_at > response.rows[1].created_at

\* C4 as stated: an identifier whose delete returned 204 is absent from
\* storage from then on, and every later get, update or delete of it
\* returns 404.
C4_AsStated ==
    [][(nreq' = nreq + 1)
        => /\ deleted' \cap Ids(examples') = {}
           /\ (request'.op \in {"get", "update", "delete"} /\ request'.id \in deleted)
                => response'.status = HTTP_404_NOT_FOUND]_vars

\* C4 amended: an identifier whose delete returned 204 is absent from
\* storage from then on; every later get or delete of it, and every later
\* update of it whose body passes validation, returns 404; an update whose
\* body fails validation returns 422.
C4_DeleteIsFinal ==
    [][(nreq' = nreq + 1)
        => /\ deleted' \cap Ids(examples') = {}
           /\ (request'.op \in {"get", "update", "delete"} /\ request'.id \in deleted)
                => response'.status =
                     IF request'.op = "update" /\ ExampleUpdateErrors(request'.body) # {}
                     THEN HTTP_422_UNPROCESSABLE_ENTITY
                     ELSE HTTP_404_NOT_FOUND]_vars

\* C4 witness: an update of a deleted identifier has answered 404.
C4_Witness ==
    /\ request.op = "update"
    /\ request.id \in deleted
    /\ response.status = HTTP_404_NOT_FOUND

Min(a, b) == IF a < b THEN a ELSE b
Max(a, b) == IF a > b THEN a ELSE b

\* The list response is the stored sequence without its first skip records,
\* cut to limit records.
IsPage(rows, stored, skip, limit) ==
    /\ Len(rows) = Min(limit, Max(0, Len(stored) - skip))
    /\ \A i \in 1..Len(rows) : rows[i] = stored[skip + i]

\* C5 as stated: for every skip and limit, list returns 200 and the page of
\* the stored sequence, and leaves storage unchanged.
C5_AsStated ==
    [][Served("list")
        => /\ response'.status = HTTP_200_OK
           /\ IsPage(response'.rows, examples, request'.skip, request'.limit)
           /\ examples' = examples]_vars

\* C5 amended: for every skip >= 0 and limit >= 0, list returns 200 and the
\* page of the stored sequence; a negative skip or limit is answered 500;
\* list leaves storage unchanged in both cases.
C5_ListPage ==
    [][Served("list")
        => /\ examples' = examples
           /\ IF request'.skip >= 0 /\ request'.limit >= 0
              THEN /\ response'.status = HTTP_200_OK
                   /\ response'.content = "list"
                   /\ IsPage(response'.rows, examples, request'.skip, request'.limit)
              ELSE response'.status = HTTP_500_INTERNAL_SERVER_ERROR]_vars

\* C5 witness: a list with skip 1 and limit 1 over two stored records has
\* returned the second one.
C5_Witness ==
    /\ request.op = "list"
    /\ request.skip = 1
    /\ request.limit = 1
    /\ Len(examples) = 2
    /\ response.rows = <<examples[2]>>

\* The record a create returned is in storage, with the supplied name and
\* description and an identifier that storage assigned.
CreatedRecordStored ==
    /\ response'.status = HTTP_201_CREATED
    /\ response'.content = "record"
    /\ Len(response'.rows) = 1
    /\ LET r == response'.rows[1]
       IN  /\ \E i \in 1..Len(examples') : examples'[i] = r
           /\ Len(examples') = Len(examples) + 1
           /\ r.name = request'.body.name
           /\ r.description = IF request'.body.description.t = "unset"
                                THEN Null ELSE request'.body.description
           /\ r.id > 0
           /\ r.id \notin Ids(examples)

\* C6 as stated: every create with a valid name returns 201 and the stored
\* record, with created_at equal to updated_at.
C6_AsStated ==
    [][(Served("create") /\ ExampleCreateErrors(request'.body) = {})
        => /\ CreatedRecordStored
           /\ response'.rows[1].created_at = response'.rows[1].updated_at]_vars

\* C6 amended: every create with a valid name and no U+0000 character in its
\* name or description returns 201 and the stored record, with created_at
\* not later than updated_at (two readings of the clock, which may differ).
C6_CreateStores ==
    [][(Served("create") /\ ExampleCreateErrors(request'.body) = {}
            /\ ~request'.body.name.nul /\ ~request'.body.description.nul)
        => /\ CreatedRecordStored
           /\ response'.rows[1].created_at <= response'.rows[1].updated_at]_vars

\* C6 witness: a create has returned 201 with a record whose created_at is
\* earlier than its updated_at.
C6_Witness ==
    /\ request.op = "create"
    /\ response.status = HTTP_201_CREATED
    /\ response.rows[1].created_at < response.rows[1].updated_at
    /\ response.rows[1].id = 2

\* C7: no two stored records share an identifier, a record that is stored
\* before and after a request has the same created_at, and an update leaves
\* the identifier and created_at of every row as they were.
C7_IdentityImmutable ==
    [][/\ \A i, j \in 1..Len(examples') :
            i # j => examples'[i].id # examples'[j].id
       /\ \A i \in 1..Len(examples), j \in 1..Len(examples') :
            examples'[j].id = examples[i].id
                => examples'[j].created_at = examples[i].created_at
       /\ Served("update")
            => /\ Len(examples') = Len(examples)
               /\ \A i \in 1..Len(examples) :
                    /\ examples'[i].id = examples[i].id
                    /\ examples'[i].created_at = examples[i].created_at]_vars

\* C7 witness: an update whose body carried the keys id and created_at has
\* returned 200 for a record stored beside another.
C7_Witness ==
    /\ request.op = "update"
    /\ request.body.id # NoInt
    /\ request.body.created_at # NoInt
    /\ response.status = HTTP_200_OK
    /\ Len(examples) = 2

\* C8: construction of Settings fails when the environment is staging or
\* production and SECRET_KEY or POSTGRES_PASSWORD is "changethis"; in the
\* local environment it succeeds with a warning for each such variable; with
\* neither value "changethis" it succeeds, without warning, in each of the
\* three environments.
C8_DefaultSecrets ==
    (settings.state # "unbuilt" /\ settings.ENVIRONMENT \in Environments)
        => LET key == settings.SECRET_KEY = "changethis"
               password == settings.POSTGRES_PASSWORD = "changethis"
           IN  /\ (settings.ENVIRONMENT \in {"staging", "production"} /\ (key \/ password))
                    => settings.state = "failed"
               /\ (settings.ENVIRONMENT = "local" /\ (key \/ password))
                    => /\ settings.state = "built"
                       /\ settings.warned =
                            (IF key THEN {"SECRET_KEY"} ELSE {})
                                \cup (IF password THEN {"POSTGRES_PASSWORD"} ELSE {})
               /\ (~key /\ ~password)
                    => /\ settings.state = "built"
                       /\ settings.warned = {}

\* C8 witness: construction has failed in production over the database
\* password alone.
C8_Witness ==
    /\ settings.state = "failed"
    /\ settings.ENVIRONMENT = "production"
    /\ settings.SECRET_KEY # "changethis"
    /\ settings.POSTGRES_PASSWORD = "changethis"

\* The last request was answered with an error.
IsError(resp) == resp.status >= HTTP_400_BAD_REQUEST

\* An error body with a detail string and a type string.
DetailAndType(resp) ==
    /\ resp.content = "json"
    /\ resp.keys = {"detail", "type"}
    /\ resp.detail_t = "string"

\* C9 as stated: every error response carries a detail string and a type
\* string; a not-found is 404, a validation failure 400, any other
\* application error 500, and an integrity violation 400 with the fixed
\* detail "Database integrity error".
C9_AsStated ==
    IsError(response)
        => /\ DetailAndType(response)
           /\ (raised.cls \in {"NotFoundError", "HTTPException"})
                => response.status = HTTP_404_NOT_FOUND
           /\ (raised.cls \in {"ValidationError", "RequestValidationError"})
                => response.status = HTTP_400_BAD_REQUEST
           /\ (raised.cls \in {"CoreException", "RuntimeError", "DataError"})
                => response.status = HTTP_500_INTERNAL_SERVER_ERROR
           /\ (raised.cls = "IntegrityError")
                => /\ response.status = HTTP_400_BAD_REQUEST
                   /\ response.detail = "Database integrity error"

\* C9 amended: the error responses made by the two registered handlers carry
\* a detail string and a type string: 404 for a NotFoundError, 400 for a
\* ValidationError, 500 for any other CoreException, and 400 with the fixed
\* detail "Database integrity error" for an integrity violation.  The error
\* responses the routes make themselves do not carry a type: 404 with a
\* detail string for a missing identifier, 422 with a list of errors as
\* detail for a body that fails validation, and a plain-text 500 for any
\* exception no handler is registered for.
C9_ErrorBodies ==
    /\ IsError(response) <=> raised # NoExc
    /\ IsInstance(raised.cls, "CoreException")
        => /\ DetailAndType(response)
           /\ response.detail = raised.msg
           /\ response.type = raised.cls
           /\ response.status =
                IF raised.cls = "NotFoundError" THEN HTTP_404_NOT_FOUND
                ELSE IF raised.cls = "ValidationError" THEN HTTP_400_BAD_REQUEST
                ELSE HTTP_500_INTERNAL_SERVER_ERROR
    /\ raised.cls = "IntegrityError"
        => /\ DetailAndType(response)
           /\ response.status = HTTP_400_BAD_REQUEST
           /\ response.detail = "Database integrity error"
           /\ response.type = "IntegrityError"
    /\ raised.cls = "HTTPException"
        => /\ DetailOnly(response)
           /\ response.status = HTTP_404_NOT_FOUND
    /\ raised.cls = "RequestValidationError"
        => /\ response.status = HTTP_422_UNPROCESSABLE_ENTITY
           /\ response.content = "json"
           /\ response.keys = {"detail"}
           /\ response.detail_t = "array"
    /\ raised.cls \in {"DataError", "RuntimeError"}
        => /\ response.status = HTTP_500_INTERNAL_SERVER_ERROR
           /\ response.content = "text"
           /\ response.keys = {}

\* C9 witness: an update that set name to null was answered 400 with the
\* fixed detail, which is not the text of the database error.
C9_Witness ==
    /\ request.op = "update"
    /\ raised.cls = "IntegrityError"
    /\ raised.msg # "Database integrity error"
    /\ response.status = HTTP_400_BAD_REQUEST
    /\ response.detail = "Database integrity error"

\* C10: a request that ends in an error leaves the stored records as they
\* were, and every request, failed or not, closes the session it opened.
C10_AllOrNothing ==
    [][(nreq' = nreq + 1)
        => /\ IsError(response') => examples' = examples
           /\ raised' # NoExc => examples' = examples
           /\ sessions' = sessions
           /\ sessions' = 0]_vars

\* C10 witness: an update that set name to null has failed on the NOT NULL
\* constraint at commit, with a record in storage and no session open.
C10_Witness ==
    /\ request.op = "update"
    /\ request.body.name = Null
    /\ raised.cls = "IntegrityError"
    /\ Len(examples) > 0
    /\ sessions = 0

\* The update and the delete in flight have both finished, on the same
\* identifier, which was stored when they arrived.
BothDoneOnExisting ==
    /\ inflight.update.pc = "done"
    /\ inflight.delete.pc = "done"
    /\ inflight.update.id = inflight.delete.id
    /\ inflight.update.id \in inflight.existing

\* C11: in every interleaving of the steps (lookup, mutate, commit) of an
\* update and a delete that run in sessions of their own, an identifier whose
\* delete has committed is never stored again; and once both requests have
\* finished on the same identifier that was stored when they arrived, the
\* record is absent, the delete has answered 204, and an update that
\* finished after the delete's commit has not answered 200: it has answered
\* 500 when its lookup had found the row, 404 or 422 otherwise.
C11_UpdateDeleteRace ==
    /\ \A id \in deleted : id \notin Ids(examples)
    /\ BothDoneOnExisting =>
        /\ inflight.update.id \notin Ids(examples)
        /\ inflight.delete.resp.status = HTTP_204_NO_CONTENT
        /\ inflight.update.order > inflight.delete.order =>
            /\ inflight.update.resp.status # HTTP_200_OK
            /\ inflight.update.resp.rows = <<>>
            /\ IF inflight.update.loaded # NoRow
               THEN inflight.update.resp.status = HTTP_500_INTERNAL_SERVER_ERROR
               ELSE inflight.update.resp.status
                        \in {HTTP_404_NOT_FOUND, HTTP_422_UNPROCESSABLE_ENTITY}

\* C11 witness: an update looked the row up, the delete committed, and the
\* update's commit then found no row to write: it raised StaleDataError and
\* answered 500, and the record is absent.
C11_Witness ==
    /\ BothDoneOnExisting
    /\ inflight.update.loaded # NoRow
    /\ inflight.update.example # inflight.update.loaded
    /\ inflight.update.order > inflight.delete.order
    /\ inflight.update.exc.cls = "StaleDataError"
    /\ inflight.update.resp.status = HTTP_500_INTERNAL_SERVER_ERROR
    /\ inflight.delete.resp.status = HTTP_204_NO_CONTENT
    /\ inflight.update.id \notin Ids(examples)

====
